---- MODULE Spec2Model ----
(***************************************************************************)
(* Model of src/app.py of gpr-chart: the boundary computation              *)
(* process_gpr_excel, the chart selection of plot_gpr_chart and the batch  *)
(* loop of the script that runs them over the uploaded files.              *)
(*                                                                         *)
(* Text (header names, text cells) is a sequence of one-character strings. *)
(* A float is a record [k, v]: k = "num" (finite, value v), "inf", "ninf", *)
(* "nan", or "None" for Python's None in a list of floats.  A finite value *)
(* is the exact fraction v/d in lowest terms with d > 0: the rounding and  *)
(* the range of the binary double are not modelled, and texts are ASCII.   *)
(* A cell of the table returned by pd.read_excel is a record [t, f, s]:    *)
(* t = "float" (a numeric cell, f its value, NaN for an empty cell),        *)
(* t = "str" (a text cell, s its characters) or t = "none" (Python's None, *)
(* which the code tests for and pd.read_excel never delivers).             *)
(* process_gpr_excel is a function of the table read; the script is the    *)
(* state machine: the form, then one step per uploaded file.  An exception *)
(* out of process_gpr_excel is not caught by the script and ends the run.  *)
(* Chainage is kept in centimetres, so that (i+1)*0.25 m is (i+1)*25.      *)
(***************************************************************************)
EXTENDS Integers, Sequences, FiniteSets, TLC

VARIABLES pc, uploaded_files, submitted, idx, table, df, reports

vars == <<pc, uploaded_files, submitted, idx, table, df, reports>>

(* ------------------------------ bounds --------------------------------- *)
MaxFiles == 2
MaxRows == 2
MaxVal == 2
MaxCols == 5

(* ------------------------- program constants --------------------------- *)
MinLayerCols == 3
MaxLayerCols == 4
Step == 25

(* ------------------------------ floats --------------------------------- *)
Num(n) == [k |-> "num", v |-> n, d |-> 1]
Inf == [k |-> "inf", v |-> 0, d |-> 1]
NegInf == [k |-> "ninf", v |-> 0, d |-> 1]
NaN == [k |-> "nan", v |-> 0, d |-> 1]
None == [k |-> "None", v |-> 0, d |-> 1]

Abs(n) == IF n < 0 THEN 0 - n ELSE n

RECURSIVE GCD(_, _)
GCD(a, b) == IF b = 0 THEN a ELSE GCD(b, a % b)

\* the finite value n/d, d > 0, in lowest terms
Rat(n, d) ==
    LET g == GCD(Abs(n), d) IN [k |-> "num", v |-> n \div g, d |-> d \div g]

\* a + b on Python floats
FloatAdd(a, b) ==
    IF a.k = "nan" \/ b.k = "nan" THEN NaN
    ELSE IF a.k = "inf" THEN (IF b.k = "ninf" THEN NaN ELSE Inf)
    ELSE IF a.k = "ninf" THEN (IF b.k = "inf" THEN NaN ELSE NegInf)
    ELSE IF b.k = "inf" THEN Inf
    ELSE IF b.k = "ninf" THEN NegInf
    ELSE Rat(a.v * b.d + b.v * a.d, a.d * b.d)

\* np.isnan
IsNan(x) == x.k = "nan"

\* pandas notnull on a column built from floats and None
NotNull(x) == x.k \notin {"None", "nan"}

(* ------------------------------- text ---------------------------------- *)
UpperCase == <<"A", "B", "C", "D", "E", "F", "G", "H", "I", "J", "K", "L", "M",
               "N", "O", "P", "Q", "R", "S", "T", "U", "V", "W", "X", "Y", "Z">>
LowerCase == <<"a", "b", "c", "d", "e", "f", "g", "h", "i", "j", "k", "l", "m",
               "n", "o", "p", "q", "r", "s", "t", "u", "v", "w", "x", "y", "z">>

UpperToLower ==
    [c \in {UpperCase[i] : i \in 1..26} |->
        LowerCase[CHOOSE i \in 1..26 : UpperCase[i] = c]]

LowerChar(c) == IF c \in DOMAIN UpperToLower THEN UpperToLower[c] ELSE c

\* str.lower
Lower(s) == [i \in 1..Len(s) |-> LowerChar(s[i])]

\* the control characters 11 and 28 to 31, written raw between the quotes
VerticalTab == ""
FileSep == ""
GroupSep == ""
RecordSep == ""
UnitSep == ""

\* the ASCII characters float() skips around a number
IsFloatSpace(c) == c \in {" ", "\t", "\n", "\r", "\f", VerticalTab}

\* the ASCII characters str.strip removes
IsSpace(c) == IsFloatSpace(c) \/ c \in {FileSep, GroupSep, RecordSep, UnitSep}

RECURSIVE LStrip(_)
LStrip(s) ==
    IF s # <<>> /\ IsSpace(Head(s)) THEN LStrip(Tail(s)) ELSE s

RECURSIVE RStrip(_)
RStrip(s) ==
    IF s # <<>> /\ IsSpace(s[Len(s)]) THEN RStrip(SubSeq(s, 1, Len(s) - 1)) ELSE s

\* str.strip
Strip(s) == LStrip(RStrip(s))

\* sub in s
Contains(s, sub) ==
    \E i \in 1..(Len(s) - Len(sub) + 1) : SubSeq(s, i, i + Len(sub) - 1) = sub

LayerWord == <<"l", "a", "y", "e", "r">>

DigitVal ==
    [c \in {"0", "1", "2", "3", "4", "5", "6", "7", "8", "9"} |->
        CASE c = "0" -> 0 [] c = "1" -> 1 [] c = "2" -> 2 [] c = "3" -> 3
          [] c = "4" -> 4 [] c = "5" -> 5 [] c = "6" -> 6 [] c = "7" -> 7
          [] c = "8" -> 8 [] c = "9" -> 9]

RECURSIVE DigitsVal(_, _)
DigitsVal(s, acc) ==
    IF s = <<>> THEN acc ELSE DigitsVal(Tail(s), 10 * acc + DigitVal[Head(s)])

Raises == [ok |-> FALSE, val |-> None]
Returns(x) == [ok |-> TRUE, val |-> x]

FloatNeg(x) ==
    CASE x.k = "num" -> Rat(0 - x.v, x.d)
      [] x.k = "inf" -> NegInf
      [] x.k = "ninf" -> Inf
      [] OTHER -> x

RECURSIVE Pow10(_)
Pow10(n) == IF n = 0 THEN 1 ELSE 10 * Pow10(n - 1)

\* position of the first c in s, 0 when there is none
IndexOf(s, c) ==
    IF \E i \in 1..Len(s) : s[i] = c
        THEN CHOOSE i \in 1..Len(s) : s[i] = c /\ \A j \in 1..(i - 1) : s[j] # c
        ELSE 0

IsDigit(c) == c \in DOMAIN DigitVal

\* digits, with single underscores between digits only
IsDigitPart(s) ==
    /\ s # <<>>
    /\ \A i \in 1..Len(s) :
          \/ IsDigit(s[i])
          \/ /\ s[i] = "_"
             /\ 1 < i /\ i < Len(s)
             /\ IsDigit(s[i - 1]) /\ IsDigit(s[i + 1])

Digits(s) == SelectSeq(s, IsDigit)

\* the decimal number m[e x] of float's grammar, m and x in lower case
ParseDecimal(s) ==
    LET e == IndexOf(s, "e")
        m == IF e = 0 THEN s ELSE SubSeq(s, 1, e - 1)
        x == IF e = 0 THEN <<>> ELSE SubSeq(s, e + 1, Len(s))
        xsigned == x # <<>> /\ Head(x) \in {"+", "-"}
        xd == IF xsigned THEN Tail(x) ELSE x
        p == IndexOf(m, ".")
        ip == IF p = 0 THEN m ELSE SubSeq(m, 1, p - 1)
        fp == IF p = 0 THEN <<>> ELSE SubSeq(m, p + 1, Len(m))
        mok == IF p = 0 THEN IsDigitPart(m)
               ELSE /\ ip = <<>> \/ IsDigitPart(ip)
                    /\ fp = <<>> \/ IsDigitPart(fp)
                    /\ ip # <<>> \/ fp # <<>>
        xok == e = 0 \/ IsDigitPart(xd)
    IN  IF ~(mok /\ xok) THEN Raises
        ELSE LET fd == Digits(fp)
                 n == DigitsVal(Digits(ip), 0) * Pow10(Len(fd)) + DigitsVal(fd, 0)
                 d == Pow10(Len(fd))
                 ex == DigitsVal(Digits(xd), 0)
             IN  IF xsigned /\ Head(x) = "-"
                    THEN Returns(Rat(n, d * Pow10(ex)))
                    ELSE Returns(Rat(n * Pow10(ex), d))

\* float(s) on an unsigned, stripped, lower-cased text
ParseUnsigned(s) ==
    IF s = <<"i", "n", "f">> \/ s = <<"i", "n", "f", "i", "n", "i", "t", "y">>
        THEN Returns(Inf)
    ELSE IF s = <<"n", "a", "n">> THEN Returns(NaN)
    ELSE ParseDecimal(s)

RECURSIVE FloatLStrip(_)
FloatLStrip(s) ==
    IF s # <<>> /\ IsFloatSpace(Head(s)) THEN FloatLStrip(Tail(s)) ELSE s

RECURSIVE FloatRStrip(_)
FloatRStrip(s) ==
    IF s # <<>> /\ IsFloatSpace(s[Len(s)])
        THEN FloatRStrip(SubSeq(s, 1, Len(s) - 1)) ELSE s

\* float(s) for a str s: ValueError unless s is a decimal number, an
\* infinity or a nan, with optional sign and surrounding whitespace
ParseFloat(s) ==
    LET body == Lower(FloatLStrip(FloatRStrip(s)))
        signed == body # <<>> /\ Head(body) \in {"+", "-"}
        r == ParseUnsigned(IF signed THEN Tail(body) ELSE body)
    IN  IF signed /\ Head(body) = "-" /\ r.ok THEN Returns(FloatNeg(r.val)) ELSE r

(* ------------------------------- cells --------------------------------- *)
FloatCell(x) == [t |-> "float", f |-> x, s |-> <<>>]
StrCell(text) == [t |-> "str", f |-> None, s |-> text]
NoneCell == [t |-> "none", f |-> None, s |-> <<>>]

\* float(v) for a cell value v
ToFloat(v) ==
    CASE v.t = "float" -> Returns(v.f)
      [] v.t = "str" -> ParseFloat(v.s)
      [] OTHER -> Raises

IsMissingOrZero(v) ==
    v.t = "none" \/ (v.t = "float" /\ (IsNan(v.f) \/ v.f = Num(0)))

\* v is None or (isinstance(v, float) and np.isnan(v))
IsMissing(v) == v.t = "none" \/ (v.t = "float" /\ IsNan(v.f))

(* ------------------------- process_gpr_excel --------------------------- *)
\* str(col).strip().lower()
Normalize(col) == Lower(Strip(col))

\* df.columns after line 18
Columns(header) == [j \in 1..Len(header) |-> Normalize(header[j])]

IsLayerCol(col) == Contains(col, LayerWord)

\* [col for col in df.columns if "layer" in col]
LayerCols(columns) == SelectSeq(columns, IsLayerCol)

TooFewBelowTwo(layer_cols) == Len(layer_cols) < MinLayerCols - 1

\* len(layer_cols) < 3
TooFewLayerCols(layer_cols) == Len(layer_cols) < MinLayerCols

\* layer_cols[:4]
FirstLayerCols(layer_cols) ==
    SubSeq(layer_cols, 1, IF Len(layer_cols) < MaxLayerCols THEN Len(layer_cols) ELSE MaxLayerCols)

\* positions of the columns labelled key, in column order
RECURSIVE LabelPositions(_, _, _)
LabelPositions(columns, key, j) ==
    IF j > Len(columns) THEN <<>>
    ELSE (IF columns[j] = key THEN <<j>> ELSE <<>>) \o LabelPositions(columns, key, j + 1)

\* df[keys]: label-based selection; a label carried by several columns
\* selects all of them, once per occurrence of the label in keys
RECURSIVE GetItem(_, _)
GetItem(columns, keys) ==
    IF keys = <<>> THEN <<>>
    ELSE LabelPositions(columns, Head(keys), 1) \o GetItem(columns, Tail(keys))

ChainageFromZero(i) == i * Step

\* (i+1)*0.25, in centimetres
ChainageOf(i) == (i + 1) * Step

AccumulateAssign(running_sum, x) == x

\* running_sum += float(v)
Accumulate(running_sum, x) == FloatAdd(running_sum, x)

\* a gap leaves its own slot empty and the sum resumes after it
RECURSIVE RowLoopResume(_, _, _, _)
RowLoopResume(vals, i, running_sum, cumsums) ==
    IF i > Len(vals) THEN cumsums
    ELSE LET r == ToFloat(vals[i]) IN
         IF IsMissing(vals[i]) \/ ~r.ok
            THEN RowLoopResume(vals, i + 1, running_sum, Append(cumsums, None))
         ELSE LET s == Accumulate(running_sum, r.val) IN
              RowLoopResume(vals, i + 1, s, Append(cumsums, s))

\* for v in vals: ... (lines 33-40); i is the 1-based position of v
RECURSIVE RowLoop(_, _, _, _)
RowLoop(vals, i, running_sum, cumsums) ==
    IF i > Len(vals) THEN cumsums
    ELSE IF IsMissing(vals[i]) THEN cumsums
    ELSE LET r == ToFloat(vals[i]) IN
         IF ~r.ok THEN cumsums
         ELSE LET s == Accumulate(running_sum, r.val) IN
              RowLoop(vals, i + 1, s, Append(cumsums, s))

\* while len(cumsums) < len(layer_cols): cumsums.append(None)
RECURSIVE Pad(_, _)
Pad(cumsums, n) == IF Len(cumsums) < n THEN Pad(Append(cumsums, None), n) ELSE cumsums

\* one iteration of the loop over df_layers.iterrows()
RowCumsums(vals) == Pad(RowLoop(vals, 1, Num(0), <<>>), Len(vals))

\* boundaries, one list per row of df_layers
Boundaries(layer_rows) == [r \in 1..Len(layer_rows) |-> RowCumsums(layer_rows[r])]

\* the outcomes of a call
ReturnsNone == [kind |-> "None", n |-> 0, rows |-> <<>>]
RaisesValueError == [kind |-> "raise", n |-> 0, rows |-> <<>>]

\* df_layers as returned: Chainage, the layer columns, the boundary columns
DfLayers(t, pos) ==
    LET layer_rows == [r \in 1..Len(t.rows) |-> [j \in 1..Len(pos) |-> t.rows[r][pos[j]]]]
        boundaries == Boundaries(layer_rows)
    IN  [kind |-> "df", n |-> Len(pos),
         rows |-> [r \in 1..Len(t.rows) |->
                     [Chainage |-> ChainageOf(r - 1),
                      layers |-> layer_rows[r],
                      boundary |-> boundaries[r]]]]

\* process_gpr_excel(file), t the table read from the file
ProcessGprExcel(t) ==
    LET columns == Columns(t.header)
        found == LayerCols(columns)
    IN  IF TooFewLayerCols(found) THEN ReturnsNone
        ELSE LET layer_cols == FirstLayerCols(found)
                 pos == GetItem(columns, layer_cols)
             IN  IF Len(pos) # Len(layer_cols) THEN RaisesValueError
                 ELSE DfLayers(t, pos)

(* --------------------------- plot_gpr_chart ---------------------------- *)
\* df[layer].notnull().any()
AnyNotNull(d, i) == \E r \in 1..Len(d.rows) : NotNull(d.rows[r].boundary[i])

\* the boundary columns that get a trace, in column order
Traces(d) == SelectSeq([i \in 1..d.n |-> i], LAMBDA i : AnyNotNull(d, i))

(* ----------------------------- batch loop ------------------------------ *)
\* all(df[col].notnull().sum() == 0 for col in boundary_cols)
NoValidData(d) == \A i \in 1..d.n : ~AnyNotNull(d, i)

(* ------------------------------ inputs --------------------------------- *)
\* header texts as typed in the sheet; pd.read_excel keeps them distinct
H_Layer1 == <<"L", "a", "y", "e", "r", " ", "1">>
H_layer1 == <<"l", "a", "y", "e", "r", " ", "1", UnitSep>>
H_LAYER2 == <<"L", "A", "Y", "E", "R", " ", "2">>
H_Layer3 == <<"\t", "L", "a", "y", "e", "r", " ", "3", "\n">>
H_Layer4 == <<"L", "a", "y", "e", "r", " ", "4">>
H_Player == <<"P", "l", "a", "y", "e", "r">>
H_FileName == <<"F", "i", "l", "e", " ", "N", "a", "m", "e">>

HeaderNames == {H_Layer1, H_layer1, H_LAYER2, H_Layer3, H_Layer4, H_Player, H_FileName}

Injective(f) == \A i, j \in DOMAIN f : i # j => f[i] # f[j]

Headers == {h \in UNION {[1..n -> HeaderNames] : n \in 0..MaxCols} : Injective(h)}

Std3 == <<H_Layer1, H_LAYER2, H_Layer3>>
Std4 == <<H_Layer1, H_LAYER2, H_Layer3, H_Layer4>>

\* text cells that survive pd.read_excel as text
T_abc == <<"a", "b", "c">>
T_2 == <<VerticalTab, "2", "\n">>
T_1p5 == <<"1", ".", "5">>
T_1e1 == <<"1", "E", "1">>
T_inf == <<"i", "n", "f">>
T_neginf == <<"-", "i", "n", "f">>
T_NAN == <<"N", "A", "N">>

Cells ==
    {FloatCell(Num(n)) : n \in (0 - 1)..MaxVal}
    \cup {FloatCell(NaN), FloatCell(Inf)}
    \cup {StrCell(text) : text \in {T_abc, T_2, T_1p5, T_1e1, T_inf, T_neginf, T_NAN}}

FewCells == {FloatCell(Num(1)), FloatCell(NaN)}

\* one row, any cells
OneRowTables ==
    {[header |-> h, rows |-> <<row>>] : h \in {Std3}, row \in [1..3 -> Cells]}
    \cup {[header |-> h, rows |-> <<row>>] : h \in {Std4}, row \in [1..4 -> Cells]}

\* several rows, numbers and empty cells
ManyRowTables ==
    UNION {{[header |-> Std3, rows |-> rs] : rs \in [1..m -> [1..3 -> FewCells]]} : m \in 0..MaxRows}
    \cup UNION {{[header |-> Std4, rows |-> rs] : rs \in [1..m -> [1..4 -> FewCells]]} : m \in 0..MaxRows}

\* any header; the cell of column j holds the number j
HeaderTables ==
    {[header |-> h, rows |-> [r \in 1..m |-> [j \in 1..Len(h) |-> FloatCell(Num(j))]]] :
        h \in Headers, m \in 0..1}

Tables == OneRowTables \cup ManyRowTables \cup HeaderTables

\* the tables of a batch of several files: one of each outcome
TooFew == <<H_Layer1, H_LAYER2, H_FileName>>
Clash == <<H_Layer1, H_layer1, H_LAYER2>>

BatchTables ==
    {t \in ManyRowTables : t.header = Std3 /\ Len(t.rows) <= 1}
    \cup {t \in HeaderTables : t.header \in {TooFew, Clash} /\ Len(t.rows) = 1}

\* a batch of one file ranges over Tables, a longer one over BatchTables
FileTables(n) == IF n <= 1 THEN Tables ELSE BatchTables

NoTable == [header |-> <<>>, rows |-> <<>>]
NoDf == [kind |-> "unset", n |-> 0, rows |-> <<>>]

(* ------------------------------ script --------------------------------- *)
Init ==
    /\ pc = "form"
    /\ uploaded_files = <<>>
    /\ submitted = FALSE
    /\ idx = 0
    /\ table = NoTable
    /\ df = NoDf
    /\ reports = <<>>

\* the form is submitted with n files: if uploaded_files and submitted
Submit ==
    /\ pc = "form"
    /\ \E n \in 0..MaxFiles, pressed \in BOOLEAN :
          /\ uploaded_files' = [i \in 1..n |-> i]
          /\ submitted' = pressed
          /\ IF n > 0 /\ pressed
                THEN pc' = "loop" /\ idx' = 1
                ELSE pc' = "done" /\ idx' = idx
    /\ UNCHANGED <<table, df, reports>>

Report(file, kind, traces, png) ==
    [file |-> file, kind |-> kind, traces |-> traces, png |-> png]

\* one iteration of: for file in uploaded_files
ProcessFile ==
    /\ pc = "loop"
    /\ idx <= Len(uploaded_files)
    /\ \E t \in FileTables(Len(uploaded_files)), kaleido \in BOOLEAN :
          LET d == ProcessGprExcel(t)
              file == uploaded_files[idx]
          IN  /\ table' = t
              /\ df' = d
              /\ IF d.kind = "raise"
                    THEN pc' = "raised" /\ idx' = idx /\ reports' = reports
                 ELSE /\ pc' = pc
                      /\ idx' = idx + 1
                      /\ reports' = Append(reports,
                            IF d.kind = "None" THEN Report(file, "error", <<>>, FALSE)
                            ELSE IF NoValidData(d) THEN Report(file, "warning", <<>>, FALSE)
                            ELSE Report(file, "chart", Traces(d), kaleido))
    /\ UNCHANGED <<uploaded_files, submitted>>

\* the loop is exhausted and the script runs to its end
Finish ==
    /\ pc = "loop"
    /\ idx > Len(uploaded_files)
    /\ pc' = "done"
    /\ UNCHANGED <<uploaded_files, submitted, idx, table, df, reports>>

Next == Submit \/ ProcessFile \/ Finish

Spec == Init /\ [][Next]_vars

TypeOK ==
    /\ pc \in {"form", "loop", "done", "raised"}
    /\ idx \in 0..(MaxFiles + 1)
    /\ Len(reports) <= MaxFiles

(* ---------------------- vocabulary of the claims ----------------------- *)
\* the call of the current iteration returned a table
Accepted == df.kind = "df"

RowsOf == 1..Len(df.rows)
LayersOf == 1..df.n

\* the report of the file whose result df holds
LastReport == reports[Len(reports)]

\* the cell parses as a finite number
ValidNumber(c) == ToFloat(c).ok /\ ToFloat(c).val.k = "num"

\* the cell is the missing marker or text that is no number
MissingCell(c) == c = FloatCell(NaN) \/ ~ToFloat(c).ok

Undefined(b) == b = None \/ b = NaN
Defined(b) == ~Undefined(b)
Finite(b) == b.k = "num"

\* the sum of the first i cells as a fraction <<n, d>>, d > 0
RECURSIVE SumTo(_, _)
SumTo(cells, i) ==
    IF i = 0 THEN <<0, 1>>
    ELSE LET p == SumTo(cells, i - 1)
             x == ToFloat(cells[i]).val
         IN  <<p[1] * x.d + x.v * p[2], p[2] * x.d>>

\* the boundary b is the finite value n/d of q = <<n, d>>
Equals(b, q) == Finite(b) /\ b.v * q[2] = q[1] * b.d

AllValid(cells) == \A i \in 1..Len(cells) : ValidNumber(cells[i])
NoneValid(cells) == \A i \in 1..Len(cells) : ~ValidNumber(cells[i])

\* the header columns whose stripped, lower-cased name contains "layer"
NamedLayer(header) ==
    {j \in 1..Len(header) : Contains(Lower(Strip(header[j])), LayerWord)}

\* the first four of them, in column order
RECURSIVE Ascending(_)
Ascending(S) ==
    IF S = {} THEN <<>>
    ELSE LET m == CHOOSE x \in S : \A y \in S : x <= y IN <<m>> \o Ascending(S \ {m})

Selected(header) ==
    LET a == Ascending(NamedLayer(header)) IN SubSeq(a, 1, IF Len(a) < 4 THEN Len(a) ELSE 4)

(* ------------------------------- claims -------------------------------- *)
\* C1: in every row of an accepted table whose layer cells are all finite
\* numbers, the boundary of layer i is the sum of the thicknesses of layers
\* 1..i, so the last boundary is the sum of all the layer values.
C1_PrefixSums ==
    Accepted =>
        \A r \in RowsOf :
            AllValid(df.rows[r].layers) =>
                \A i \in LayersOf : Equals(df.rows[r].boundary[i], SumTo(df.rows[r].layers, i))

\* a four-layer row of finite numbers, one of them text, with a
\* fractional sum of 5 or more
C1_Witness ==
    /\ Accepted
    /\ df.n = 4
    /\ \E r \in RowsOf :
          /\ AllValid(df.rows[r].layers)
          /\ \E i \in LayersOf : df.rows[r].layers[i].t = "str"
          /\ Equals(df.rows[r].boundary[4], SumTo(df.rows[r].layers, 4))
          /\ df.rows[r].boundary[4].d > 1
          /\ df.rows[r].boundary[4].v >= 5 * df.rows[r].boundary[4].d

\* C2: boundary[i] is defined if and only if thickness[i] is a valid
\* (finite) number and i is the first layer or boundary[i-1] is defined.
C2_DefinedIff ==
    Accepted =>
        \A r \in RowsOf : \A i \in LayersOf :
            Defined(df.rows[r].boundary[i]) <=>
                (/\ ValidNumber(df.rows[r].layers[i])
                 /\ (i = 1 \/ Defined(df.rows[r].boundary[i - 1])))

\* C3: monotonic truncation: if boundary[i] is undefined, so is every
\* deeper boundary of the row, whatever the deeper cells hold.
C3_MonotonicTruncation ==
    Accepted =>
        \A r \in RowsOf : \A i, j \in LayersOf :
            (i < j /\ Undefined(df.rows[r].boundary[i])) => Undefined(df.rows[r].boundary[j])

\* a gap in the first or second layer with a finite number below it
C3_Witness ==
    /\ Accepted
    /\ \E r \in RowsOf : \E i, j \in LayersOf :
          /\ i < j
          /\ Undefined(df.rows[r].boundary[i])
          /\ ~ValidNumber(df.rows[r].layers[i])
          /\ ValidNumber(df.rows[r].layers[j])
          /\ Undefined(df.rows[r].boundary[j])

\* C4: the chainage of the row at 0-based position p is (p+1)*0.25 m
\* whatever the row holds; chainage increases strictly down the table.
C4_Chainage ==
    Accepted =>
        /\ \A r \in RowsOf : 4 * df.rows[r].Chainage = 100 * r
        /\ \A r, q \in RowsOf : r < q => df.rows[r].Chainage < df.rows[q].Chainage

\* a second row with no boundary at all, at 0.50 m
C4_Witness ==
    /\ Accepted
    /\ Len(df.rows) >= 2
    /\ \A i \in LayersOf : Undefined(df.rows[2].boundary[i])
    /\ df.rows[2].Chainage = 50

\* C5: a table with fewer than 3 columns named "layer" is reported as an
\* error and yields no table and no rows, unlike the warning given for a
\* table without numeric data; with 3 or more such columns there is no
\* such error.
C5_StructuralError ==
    df.kind # "unset" =>
        /\ Cardinality(NamedLayer(table.header)) < 3 <=> df.kind = "None"
        /\ df.kind = "None" =>
              /\ df.rows = <<>>
              /\ LastReport.kind = "error"
        /\ Accepted => LastReport.kind \in {"warning", "chart"}

\* a table of two layer columns and one row, rejected
C5_Witness ==
    /\ df.kind = "None"
    /\ Cardinality(NamedLayer(table.header)) = 2
    /\ Len(table.rows) = 1
    /\ LastReport.kind = "error"

\* C6: for a structurally valid table (3 or more columns named "layer")
\* no exception is raised, and the warning is given, and no chart, exactly
\* when every boundary of every row is undefined, in particular when the
\* first layer of every row is missing or there are no rows; otherwise the
\* chart is produced.
C6_NoPlottableData ==
    (df.kind # "unset" /\ Cardinality(NamedLayer(table.header)) >= 3) =>
        /\ pc # "raised"
        /\ Accepted
        /\ LastReport.kind = "warning" <=>
              \A r \in RowsOf : \A i \in LayersOf : Undefined(df.rows[r].boundary[i])
        /\ LastReport.kind # "warning" <=> LastReport.kind = "chart"
        /\ (\A r \in RowsOf : MissingCell(df.rows[r].layers[1])) => LastReport.kind = "warning"

\* C7: when the run of a submitted batch has ended, every file of the batch
\* has been processed and reported exactly once, in upload order.
C7_EveryFileProcessed ==
    (submitted /\ pc \in {"done", "raised"}) =>
        [i \in 1..Len(reports) |-> reports[i].file] = uploaded_files

\* C8: a cell that is missing or does not parse as a finite number never
\* raises; it leaves its own boundary and every deeper one undefined, and
\* no defined boundary is non-finite.
C8_CellTruncates ==
    Accepted =>
        /\ pc # "raised"
        /\ \A r \in RowsOf : \A i, j \in LayersOf :
              (i <= j /\ ~ValidNumber(df.rows[r].layers[i])) => Undefined(df.rows[r].boundary[j])
        /\ \A r \in RowsOf : \A i \in LayersOf :
              Defined(df.rows[r].boundary[i]) => Finite(df.rows[r].boundary[i])

\* C9: a cell of exactly zero does not truncate: when the boundary above it
\* is defined (or it is the first layer) its boundary is defined and equal
\* to the one above (0 for the first layer), and a finite number below it
\* still gets a boundary.
C9_ZeroIsValid ==
    Accepted =>
        \A r \in RowsOf : \A i \in LayersOf :
            (/\ df.rows[r].layers[i] = FloatCell(Num(0))
             /\ (i = 1 \/ Defined(df.rows[r].boundary[i - 1])))
            => /\ Defined(df.rows[r].boundary[i])
               /\ df.rows[r].boundary[i] = (IF i = 1 THEN Num(0) ELSE df.rows[r].boundary[i - 1])
               /\ (i < df.n /\ ValidNumber(df.rows[r].layers[i + 1]))
                     => Defined(df.rows[r].boundary[i + 1])

\* the row 0, 2, 1 with boundaries 0, 2, 3
C9_Witness ==
    /\ Accepted
    /\ \E r \in RowsOf :
          /\ df.rows[r].layers[1] = FloatCell(Num(0))
          /\ df.rows[r].boundary[1] = Num(0)
          /\ df.rows[r].boundary[2] = Num(2)
          /\ df.rows[r].boundary[3] = Num(3)

\* C10: an accepted table keeps every row, in order: the output has the
\* rows of the input with their layer cells, each with 3 or 4 boundary
\* slots, all defined when every layer is a valid number and all undefined
\* when none is; equal rows get equal boundaries wherever they stand.
C10_RowsKept ==
    Accepted =>
        /\ Len(df.rows) = Len(table.rows)
        /\ df.n \in {3, 4}
        /\ \A r \in RowsOf :
              /\ df.rows[r].layers =
                    [j \in 1..Len(Selected(table.header)) |-> table.rows[r][Selected(table.header)[j]]]
              /\ Len(df.rows[r].boundary) = df.n
              /\ AllValid(df.rows[r].layers) => \A i \in LayersOf : Defined(df.rows[r].boundary[i])
              /\ NoneValid(df.rows[r].layers) => \A i \in LayersOf : Undefined(df.rows[r].boundary[i])
        /\ \A r, q \in RowsOf :
              df.rows[r].layers = df.rows[q].layers => df.rows[r].boundary = df.rows[q].boundary

====
